---- MODULE Spec2Model ----
(***************************************************************************)
(* Model of the TFTP client of src/main.py: main() opens a UDP socket,     *)
(* sends one RRQ or WRQ and runs handle_get or handle_put, a lockstep      *)
(* DATA/ACK loop, then closes the socket in its finally clause.            *)
(*                                                                         *)
(* Byte strings are modelled as follows.  The first four bytes of a        *)
(* datagram (response[:4], the two big-endian 16-bit fields) are a         *)
(* sequence of bytes, hdr.  The rest (response[4:], the payload) is a      *)
(* record [len, id]: its length in bytes and the identity of its content.  *)
(* The text of a request (filename, NUL, mode, NUL) is a sequence of       *)
(* bytes.                                                                  *)
(*                                                                         *)
(* A transfer that crosses block 65535 needs more than 65535 loop          *)
(* iterations.  The logs of the model (sent, rcvd, sink) cover a window    *)
(* of the session; base is the number of iterations that ran before the    *)
(* window, each of which exchanged one full 512-byte block.  base = 0 is   *)
(* a session from its first statement.                                     *)
(***************************************************************************)
EXTENDS Integers, Sequences, FiniteSets, TLC

VARIABLES
    pc,            \* position of the single thread of control
    operation,     \* main: operation = input(...)
    file_exists,   \* os.path.exists(filename), read by handle_put
    file_len,      \* size in bytes of the local file handle_put reads
    file_pos,      \* read position of handle_put's file object
    block_number,  \* the local block_number of handle_put / handle_get
    data,          \* handle_put: the chunk read in the current iteration
    sock_open,     \* the socket is open
    nClose,        \* number of sock.close() calls
    sent,          \* datagrams passed to sock.sendto, in order (window)
    rcvd,          \* results of sock.recvfrom, in order (window)
    sink,          \* content of the file handle_get writes (window)
    nWrites,       \* number of file.write calls (window)
    printed,       \* result messages printed, in order
    exception,     \* the exception propagating out of main, or "none"
    base,          \* iterations completed before the window
    file_name,     \* main: filename = input(...), a sequence of code points
    mode,          \* the mode argument of build_request
    request_packet \* main: request_packet = build_request(...)

vars == << pc, operation, file_exists, file_len, file_pos, block_number, data,
           sock_open, nClose, sent, rcvd, sink, nWrites, printed, exception,
           base, file_name, mode, request_packet >>

-----------------------------------------------------------------------------
(* Bounds of the model *)

MaxRounds == 3        \* receives per window
MaxFullChunks == 2    \* full chunks left in the source file at the window start
MaxNameLen == 2       \* characters of a filename given to build_request
MaxModeLen == 2       \* characters of a mode given to build_request

-----------------------------------------------------------------------------
(* Constants of the program *)

RRQ == 1
WRQ == 2
DATA == 3
ACK == 4
ERROR == 5

BUFFER_SIZE == 516    \* Maximum TFTP packet size
ChunkSize == 512      \* file.read(512), len(data) < 512
WireMax == 65535      \* largest value of an "H" field of struct.pack
ByteBase == 256

ServerAddress == "server:69"                 \* server_address = (host, port)
Endpoints == {"server:69", "server:tid"}      \* sources of inbound datagrams

Filename == <<102>>                           \* "f"
Mode == <<111, 99, 116, 101, 116>>            \* "octet"

MsgNoFile == "Error: File does not exist."
MsgBadAck == "Error: Invalid ACK received."
MsgAckTimeout == "Error: Timeout waiting for ACK."
MsgUploadOk == "Upload successful."
MsgBadData == "Error: Invalid DATA packet received."
MsgDownloadOk == "Download successful."
MsgDataTimeout == "Error: Timeout waiting for data."
MsgBadOperation == "Error: Invalid operation. Use 'get' or 'put'."

-----------------------------------------------------------------------------
(* struct.pack / struct.unpack, big-endian unsigned 16-bit fields *)

Min(a, b) == IF a < b THEN a ELSE b

\* struct.pack raises struct.error for an "H" argument outside 0..65535
CanPack(v) == v \in 0..WireMax

PackH(v) == << v \div ByteBase, v % ByteBase >>

PackHH(a, b) == PackH(a) \o PackH(b)

\* struct.unpack("!HH", b) raises struct.error unless b holds exactly 4 bytes
CanUnpack(b) == Len(b) = 4

UnpackHH(b) == << b[1] * ByteBase + b[2], b[3] * ByteBase + b[4] >>

NoData == [len |-> 0, id |-> 0]

\* str.encode(): UTF-8, one byte for a code point below 128, two bytes for a
\* code point below 2048
EncodeChar(c) ==
    IF c < 128 THEN << c >> ELSE << 192 + (c \div 64), 128 + (c % 64) >>

RECURSIVE Encode(_)
Encode(str) ==
    IF str = <<>> THEN <<>> ELSE EncodeChar(Head(str)) \o Encode(Tail(str))

\* the "<n>s" field of struct.pack: the first n bytes, padded with NUL bytes
PackS(bytes, n) == [i \in 1..n |-> IF i <= Len(bytes) THEN bytes[i] ELSE 0]

\* build_request with the fields not terminated: "<len>s" in place of
\* "<len + 1>s"
build_request_unterminated(opcode, filename, md) ==
    [hdr |-> PackH(opcode),
     text |-> PackS(Encode(filename), Len(filename))
              \o PackS(Encode(md), Len(md)),
     data |-> NoData]

\* build_request: struct.pack(f"!H{len(filename) + 1}s{len(mode) + 1}s", ...)
build_request(opcode, filename, md) ==
    [hdr |-> PackH(opcode),
     text |-> PackS(Encode(filename), Len(filename) + 1)
              \o PackS(Encode(md), Len(md) + 1),
     data |-> NoData]

\* the value of request_packet before it is assigned
NoPacket == [hdr |-> <<>>, text |-> <<>>, data |-> NoData]

\* an embedded NUL: open() raises ValueError, os.path.exists() returns False
HasNul(str) == \E i \in 1..Len(str) : str[i] = 0

\* the ACK packet of send_ack
AckPacket(blk) == [hdr |-> PackHH(ACK, blk), text |-> <<>>, data |-> NoData]

\* the DATA packet of handle_put
DataPacket(blk, d) == [hdr |-> PackHH(DATA, blk), text |-> <<>>, data |-> d]

\* recvfrom that keeps only the datagrams of the configured server address
recvfrom_server_only(datagram) ==
    IF datagram.src = "server:69"
    THEN [hdr |-> datagram.hdr, data |-> datagram.data]
    ELSE [hdr |-> <<>>, data |-> NoData]

\* response, _ = sock.recvfrom(BUFFER_SIZE): the first BUFFER_SIZE bytes of the
\* datagram; the source address is discarded
recvfrom(datagram) ==
    [hdr |-> datagram.hdr,
     data |-> [len |-> Min(datagram.data.len, BUFFER_SIZE - Len(datagram.hdr)),
               id |-> datagram.data.id]]

\* sock.sendto(packet, address)
SendTo(log, packet, address) ==
    Append(log, [dest |-> address, hdr |-> packet.hdr, text |-> packet.text,
                 data |-> packet.data])

-----------------------------------------------------------------------------
(* Files *)

\* file.read(512): the next chunk, shorter than 512 bytes only at end of file
FileRead(len, pos) == [len |-> Min(ChunkSize, len - pos), id |-> pos]

\* file.write(data): appends the bytes; writing b"" leaves the content as is
FileWrite(content, d) == IF d.len = 0 THEN content ELSE Append(content, d)

-----------------------------------------------------------------------------
(* The tests of the two loops *)

\* PutAckOk with the block test left out
PutAckOkAnyBlock(opcode, ack_block, blk) == ~(opcode # ACK)

\* PutAckOk with "and" in place of "or"
PutAckOkEither(opcode, ack_block, blk) == ~(opcode # ACK /\ ack_block # blk)

\* handle_put: not (opcode != ACK or ack_block != block_number)
PutAckOk(opcode, ack_block, blk) == ~(opcode # ACK \/ ack_block # blk)

\* GetDataOk with the block test left out
GetDataOkAnyBlock(opcode, received_block, blk) == ~(opcode # DATA)

\* handle_get: not (opcode != DATA or received_block != block_number + 1)
GetDataOk(opcode, received_block, blk) ==
    ~(opcode # DATA \/ received_block # blk + 1)

\* IsLastBlock with <= in place of <
IsLastBlockInclusive(d) == d.len <= ChunkSize

\* len(data) < 512
IsLastBlock(d) == d.len < ChunkSize

\* NextBlock with the increment left out
NextBlockStuck(blk) == blk

\* block_number += 1
NextBlock(blk) == blk + 1

\* send_ack addressed to the source of the datagram just received
send_ack_to_sender(log, blk, address) ==
    SendTo(log, AckPacket(blk), rcvd'[Len(rcvd')].src)

\* send_ack(sock, block_number, server_address)
send_ack(log, blk, address) == SendTo(log, AckPacket(blk), address)

\* RaisePc without the finally clause: the exception leaves main at once
RaisePcNoFinally == "exit"

\* an exception raised inside the try block of main runs the finally clause
RaisePc == "finally"

\* ReturnPc with control falling through into the loop of handle_put
ReturnPcFallThrough == "put_send"

\* break out of the loop, or return from handle_put: the handler returns to
\* main, whose try block ends
ReturnPc == "finally"

\* OnTimeout with the message printed and the wait repeated
OnTimeoutRetry(msg) == [printed |-> Append(printed, msg), pc |-> pc]

\* OnTimeout with the timeout swallowed: no message, the loop waits again
OnTimeoutIgnored(msg) == [printed |-> printed, pc |-> pc]

\* except socket.timeout: print the message and break
OnTimeout(msg) == [printed |-> Append(printed, msg), pc |-> ReturnPc]

-----------------------------------------------------------------------------
(* Inputs *)

\* sizes of the part of the source file that the window still has to read
FileTails == { k * ChunkSize + r : k \in 0..MaxFullChunks, r \in {0, 200} }

\* iterations completed before the window
ResumePoints == {0, WireMax - 2}

\* payloads of inbound DATA packets
Payloads == { NoData, [len |-> 200, id |-> 1],
              [len |-> ChunkSize, id |-> 1], [len |-> ChunkSize, id |-> 2] }

\* block fields of inbound packets: around the local block number, modulo 2^16
NearBlocks(blk) == { (blk + d + WireMax + 1) % (WireMax + 1) : d \in -1..2 }

\* the datagrams sock.recvfrom may return
Datagrams(blk) ==
    { [kind |-> "datagram", src |-> s, hdr |-> PackHH(DATA, k), data |-> p] :
        s \in Endpoints, k \in NearBlocks(blk), p \in Payloads }
    \cup
    { [kind |-> "datagram", src |-> s, hdr |-> PackHH(op, k), data |-> NoData] :
        s \in Endpoints, k \in NearBlocks(blk), op \in {RRQ, ACK, ERROR} }
    \cup
    { [kind |-> "datagram", src |-> s,
       hdr |-> SubSeq(PackHH(DATA, blk), 1, n), data |-> NoData] :
        s \in Endpoints, n \in 0..3 }

\* the filenames typed in: "f", and "f" followed by a NUL character
Filenames == { Filename, Filename \o <<0>> }

\* sock.recvfrom raised socket.timeout
TimedOut == [kind |-> "timeout", src |-> "none", hdr |-> <<>>, data |-> NoData]

-----------------------------------------------------------------------------
(* Initial states *)

\* main() after socket.socket(...) and sock.settimeout(TIMEOUT)
InitFresh ==
    /\ pc = "start"
    /\ \/ operation = "get" /\ file_exists = FALSE /\ file_len = 0
       \/ operation = "put" /\ file_exists = FALSE /\ file_len = 0
       \/ operation = "put" /\ file_exists = TRUE /\ file_len \in FileTails
       \/ operation = "delete" /\ file_exists = FALSE /\ file_len = 0
    /\ file_pos = 0
    /\ block_number = 0
    /\ data = NoData
    /\ base = 0
    /\ file_name \in Filenames
    /\ HasNul(file_name) => ~file_exists
    /\ request_packet = NoPacket

\* handle_get at the head of its loop after base full blocks were accepted,
\* handle_put at the head of its loop after base full blocks were acknowledged
InitResumed ==
    /\ base \in ResumePoints \ {0}
    /\ block_number = base
    /\ file_name = Filename
    /\ \/ /\ operation = "get" /\ pc = "get_recv"
          /\ file_exists = FALSE /\ file_len = 0 /\ file_pos = 0
          /\ data = NoData
       \/ /\ operation = "put" /\ pc = "put_send"
          /\ file_exists = TRUE
          /\ file_pos = base * ChunkSize
          /\ \E t \in FileTails : file_len = file_pos + t
          /\ data = [len |-> ChunkSize, id |-> file_pos - ChunkSize]
    /\ request_packet =
          build_request(IF operation = "get" THEN RRQ ELSE WRQ, Filename, Mode)

Init ==
    /\ InitFresh \/ InitResumed
    /\ mode = Mode
    /\ sock_open = TRUE
    /\ nClose = 0
    /\ sent = <<>>
    /\ rcvd = <<>>
    /\ sink = <<>>
    /\ nWrites = 0
    /\ printed = <<>>
    /\ exception = "none"

-----------------------------------------------------------------------------
(* main *)

\* operation == 'get': send the RRQ, enter handle_get up to its first recvfrom;
\* open(filename, 'wb') raises ValueError for a name with an embedded NUL
MainGet ==
    /\ pc = "start" /\ operation = "get"
    /\ request_packet' = build_request(RRQ, file_name, mode)
    /\ sent' = SendTo(sent, request_packet', ServerAddress)
    /\ sink' = <<>>
    /\ IF HasNul(file_name)
       THEN /\ exception' = "ValueError"
            /\ pc' = RaisePc
            /\ UNCHANGED block_number
       ELSE /\ block_number' = 0
            /\ pc' = "get_recv"
            /\ UNCHANGED exception
    /\ UNCHANGED << operation, file_name, mode, file_exists, file_len,
                    file_pos, data, sock_open, nClose, rcvd, nWrites, printed,
                    base >>

\* operation == 'put': send the WRQ, enter handle_put up to the head of its loop
MainPut ==
    /\ pc = "start" /\ operation = "put"
    /\ request_packet' = build_request(WRQ, file_name, mode)
    /\ sent' = SendTo(sent, request_packet', ServerAddress)
    /\ IF ~file_exists
       THEN /\ printed' = Append(printed, MsgNoFile)
            /\ pc' = ReturnPc
            /\ UNCHANGED block_number
       ELSE /\ block_number' = 0
            /\ pc' = "put_send"
            /\ UNCHANGED printed
    /\ UNCHANGED << operation, file_name, mode, file_exists, file_len,
                    file_pos, data, sock_open,
                    nClose, rcvd, sink, nWrites, exception, base >>

\* any other operation
MainInvalid ==
    /\ pc = "start" /\ operation \notin {"get", "put"}
    /\ printed' = Append(printed, MsgBadOperation)
    /\ pc' = ReturnPc
    /\ UNCHANGED << operation, file_name, mode, request_packet,
                    file_exists, file_len, file_pos, block_number,
                    data, sock_open, nClose, sent, rcvd, sink, nWrites,
                    exception, base >>

\* finally: sock.close()
Finally ==
    /\ pc = "finally"
    /\ sock_open' = FALSE
    /\ nClose' = nClose + 1
    /\ pc' = "exit"
    /\ UNCHANGED << operation, file_name, mode, request_packet,
                    file_exists, file_len, file_pos, block_number,
                    data, sent, rcvd, sink, nWrites, printed, exception, base >>

-----------------------------------------------------------------------------
(* handle_put *)

\* the loop body up to sock.recvfrom: count, read, pack, send
PutSend ==
    /\ pc = "put_send"
    /\ Len(rcvd) < MaxRounds
    /\ block_number' = NextBlock(block_number)
    /\ data' = FileRead(file_len, file_pos)
    /\ file_pos' = file_pos + data'.len
    /\ IF CanPack(block_number')
       THEN /\ sent' = SendTo(sent, DataPacket(block_number', data'),
                              ServerAddress)
            /\ pc' = "put_recv"
            /\ UNCHANGED exception
       ELSE /\ exception' = "struct.error"
            /\ pc' = RaisePc
            /\ UNCHANGED sent
    /\ UNCHANGED << operation, file_name, mode, request_packet,
                    file_exists, file_len, sock_open, nClose, rcvd,
                    sink, nWrites, printed, base >>

\* sock.recvfrom raises socket.timeout
PutTimeout ==
    /\ pc = "put_recv"
    /\ Len(rcvd) < MaxRounds
    /\ rcvd' = Append(rcvd, TimedOut)
    /\ printed' = OnTimeout(MsgAckTimeout).printed
    /\ pc' = OnTimeout(MsgAckTimeout).pc
    /\ UNCHANGED << operation, file_name, mode, request_packet,
                    file_exists, file_len, file_pos, block_number,
                    data, sock_open, nClose, sent, sink, nWrites, exception,
                    base >>

\* sock.recvfrom returns a datagram: unpack, test the ACK, test the chunk length
PutRecvFrom(datagram) ==
    /\ pc = "put_recv"
    /\ Len(rcvd) < MaxRounds
    /\ rcvd' = Append(rcvd, datagram)
    /\ LET response == recvfrom(datagram) IN
        /\ IF ~CanUnpack(response.hdr)
           THEN /\ exception' = "struct.error"
                /\ pc' = RaisePc
                /\ UNCHANGED printed
           ELSE LET opcode == UnpackHH(response.hdr)[1]
                    ack_block == UnpackHH(response.hdr)[2]
                IN  /\ UNCHANGED exception
                    /\ IF ~PutAckOk(opcode, ack_block, block_number)
                       THEN /\ printed' = Append(printed, MsgBadAck)
                            /\ pc' = ReturnPc
                       ELSE IF IsLastBlock(data)
                       THEN /\ printed' = Append(printed, MsgUploadOk)
                            /\ pc' = ReturnPc
                       ELSE /\ pc' = "put_send"
                            /\ UNCHANGED printed
    /\ UNCHANGED << operation, file_name, mode, request_packet,
                    file_exists, file_len, file_pos, block_number,
                    data, sock_open, nClose, sent, sink, nWrites, base >>

PutRecv == \E datagram \in Datagrams(block_number) : PutRecvFrom(datagram)

-----------------------------------------------------------------------------
(* handle_get *)

\* sock.recvfrom raises socket.timeout
GetTimeout ==
    /\ pc = "get_recv"
    /\ Len(rcvd) < MaxRounds
    /\ rcvd' = Append(rcvd, TimedOut)
    /\ printed' = OnTimeout(MsgDataTimeout).printed
    /\ pc' = OnTimeout(MsgDataTimeout).pc
    /\ UNCHANGED << operation, file_name, mode, request_packet,
                    file_exists, file_len, file_pos, block_number,
                    data, sock_open, nClose, sent, sink, nWrites, exception,
                    base >>

\* sock.recvfrom returns a datagram: unpack, test the DATA packet, write the
\* payload, acknowledge it, test the payload length
GetRecvFrom(datagram) ==
    /\ pc = "get_recv"
    /\ Len(rcvd) < MaxRounds
    /\ rcvd' = Append(rcvd, datagram)
    /\ LET response == recvfrom(datagram) IN
        /\ IF ~CanUnpack(response.hdr)
           THEN /\ exception' = "struct.error"
                /\ pc' = RaisePc
                /\ UNCHANGED << block_number, sink, nWrites, sent, printed >>
           ELSE LET opcode == UnpackHH(response.hdr)[1]
                    received_block == UnpackHH(response.hdr)[2]
                IN  /\ UNCHANGED exception
                    /\ IF ~GetDataOk(opcode, received_block, block_number)
                       THEN /\ printed' = Append(printed, MsgBadData)
                            /\ pc' = ReturnPc
                            /\ UNCHANGED << block_number, sink, nWrites, sent >>
                       ELSE /\ sink' = FileWrite(sink, response.data)
                            /\ nWrites' = nWrites + 1
                            /\ block_number' = received_block
                            /\ sent' = send_ack(sent, block_number',
                                                ServerAddress)
                            /\ IF IsLastBlock(response.data)
                               THEN /\ printed' = Append(printed, MsgDownloadOk)
                                    /\ pc' = ReturnPc
                               ELSE /\ pc' = "get_recv"
                                    /\ UNCHANGED printed
    /\ UNCHANGED << operation, file_name, mode, request_packet,
                    file_exists, file_len, file_pos, data, sock_open,
                    nClose, base >>

GetRecv == \E datagram \in Datagrams(block_number) : GetRecvFrom(datagram)

-----------------------------------------------------------------------------

Next ==
    \/ MainGet
    \/ MainPut
    \/ MainInvalid
    \/ PutSend
    \/ PutTimeout
    \/ PutRecv
    \/ GetTimeout
    \/ GetRecv
    \/ Finally

Spec == Init /\ [][Next]_vars

\* the single thread takes its next step: no statement blocks forever, since
\* sock.recvfrom returns a datagram or raises socket.timeout after TIMEOUT
FairSpec == Spec /\ WF_vars(Next)

-----------------------------------------------------------------------------
(* build_request on its own: the inputs are drawn from bounded sets *)

\* the strings of at most n characters over the alphabet
Strings(alphabet, n) == UNION { [1..k -> alphabet] : k \in 0..n }

\* filenames over "f", NUL and e-acute; modes over "o" and NUL
CodecFilenames == Strings({102, 0, 233}, MaxNameLen)

CodecModes == Strings({111, 0}, MaxModeLen)

\* OPCODES['RRQ'] for get, OPCODES['WRQ'] for put
RequestOpcode(op) == IF op = "get" THEN RRQ ELSE WRQ

CodecInit ==
    /\ pc = "codec_start"
    /\ operation \in {"get", "put"}
    /\ file_name \in CodecFilenames
    /\ mode \in CodecModes
    /\ request_packet = NoPacket
    /\ file_exists = FALSE /\ file_len = 0 /\ file_pos = 0
    /\ block_number = 0 /\ data = NoData /\ base = 0
    /\ sock_open = FALSE /\ nClose = 0
    /\ sent = <<>> /\ rcvd = <<>> /\ sink = <<>> /\ nWrites = 0
    /\ printed = <<>> /\ exception = "none"

\* request_packet = build_request(opcode, filename, mode)
CodecBuild ==
    /\ pc = "codec_start"
    /\ request_packet' =
          build_request(RequestOpcode(operation), file_name, mode)
    /\ pc' = "codec_built"
    /\ UNCHANGED << operation, file_name, mode, file_exists, file_len,
                    file_pos, block_number, data, sock_open, nClose, sent,
                    rcvd, sink, nWrites, printed, exception, base >>

CodecNext == CodecBuild

CodecSpec == CodecInit /\ [][CodecNext]_vars

TypeOK ==
    /\ pc \in {"start", "put_send", "put_recv", "get_recv", "finally", "exit",
              "codec_start", "codec_built"}
    /\ operation \in {"get", "put", "delete"}
    /\ block_number \in 0..(WireMax + 1)
    /\ nClose \in 0..1
    /\ exception \in {"none", "struct.error", "ValueError"}

-----------------------------------------------------------------------------
(* Vocabulary of the properties *)

\* the handler has returned, or an exception has left it
Finished == pc \in {"finally", "exit"}

Messages == { printed[i] : i \in 1..Len(printed) }

\* DONE: a success message was printed
Done == Messages \cap {MsgUploadOk, MsgDownloadOk} # {}

\* the failure kind that a printed error message reports
Kind(msg) ==
    CASE msg \in {MsgAckTimeout, MsgDataTimeout} -> "Timeout"
      [] msg \in {MsgBadAck, MsgBadData} -> "UnexpectedPacket"
      [] msg = MsgNoFile -> "FileNotFound"
      [] msg = MsgBadOperation -> "InvalidOperation"
      [] OTHER -> "none"

\* the failure kinds the session has reported
FailureKinds ==
    { Kind(m) : m \in Messages \ {MsgUploadOk, MsgDownloadOk} }
    \cup (IF exception = "none" THEN {} ELSE {exception})

\* FAILED: an error message was printed or an exception was raised
Failed == FailureKinds # {}

IsPacket(p, opcode) == Len(p.hdr) = 4 /\ UnpackHH(p.hdr)[1] = opcode

BlockOf(p) == UnpackHH(p.hdr)[2]

\* the DATA packets and the ACK packets sent in the window, in order
DataSent == SelectSeq(sent, LAMBDA p : IsPacket(p, DATA))

AcksSent == SelectSeq(sent, LAMBDA p : IsPacket(p, ACK))

\* the concatenation of the payloads of the first n datagrams received
Concatenated(n) ==
    SelectSeq([i \in 1..n |-> rcvd[i].data], LAMBDA d : d.len > 0)

\* the i-th datagram received is the DATA packet with block field blk
IsDataReply(i, blk) ==
    /\ rcvd[i].kind = "datagram"
    /\ IsPacket(rcvd[i], DATA)
    /\ BlockOf(rcvd[i]) = blk

\* the i-th datagram received is the ACK packet with block field blk
IsAckReply(i, blk) ==
    /\ rcvd[i].kind = "datagram"
    /\ IsPacket(rcvd[i], ACK)
    /\ BlockOf(rcvd[i]) = blk

\* the replies so far are the DATA blocks base+1, base+2, ... in order, all of
\* them full except that the last one is short when lastShort holds
InOrderReplies(lastShort) ==
    \A i \in 1..Len(rcvd) :
        /\ IsDataReply(i, base + i)
        /\ IF lastShort /\ i = Len(rcvd)
           THEN rcvd[i].data.len < ChunkSize
           ELSE rcvd[i].data.len = ChunkSize

-----------------------------------------------------------------------------
(* C1 *)

\* (A download whose local file cannot be opened raises before it receives.)
\* C1: a download whose replies are the DATA blocks 1..n in order, the first
\* n-1 full and the n-th short, is DONE after exactly n round trips (n ACKs
\* sent, not DONE while only full blocks have arrived), with one write per
\* payload and the sink holding the n payloads concatenated in block order.
C1_InOrderDownload ==
    operation = "get" /\ pc # "start" =>
        /\ InOrderReplies(FALSE) =>
              ~Done /\ (exception = "none" => pc = "get_recv")
        /\ Len(rcvd) >= 1 /\ InOrderReplies(TRUE) =>
              /\ Done /\ ~Failed /\ Finished
              /\ Len(AcksSent) = Len(rcvd)
              /\ \A i \in 1..Len(rcvd) : BlockOf(AcksSent[i]) = base + i
              /\ nWrites = Len(rcvd)
              /\ sink = Concatenated(Len(rcvd))

C1_Witness ==
    /\ operation = "get" /\ base = 0 /\ pc = "exit"
    /\ Len(rcvd) = 3 /\ InOrderReplies(TRUE)
    /\ rcvd[1].data # rcvd[2].data
    /\ rcvd[3].data.len = 200
    /\ Done

-----------------------------------------------------------------------------
(* C2 *)

\* the i-th reply is an ACK whose block differs from that of the i-th DATA
AckMismatch(i) ==
    /\ rcvd[i].kind = "datagram"
    /\ IsPacket(rcvd[i], ACK)
    /\ BlockOf(rcvd[i]) # BlockOf(DataSent[i])

\* C2: in an upload, an ACK whose block differs from the block of the DATA it
\* replies to makes the session FAILED with UnexpectedPacket, and the DATA it
\* replied to stays the last DATA packet sent.
C2_UploadBlockMismatch ==
    operation = "put" =>
        \A i \in 1..Len(rcvd) :
            AckMismatch(i) =>
                /\ Finished
                /\ FailureKinds = {"UnexpectedPacket"}
                /\ ~Done
                /\ Len(rcvd) = i
                /\ Len(DataSent) = i

C2_Witness ==
    /\ operation = "put" /\ base = 0 /\ pc = "exit"
    /\ Len(rcvd) = 1 /\ AckMismatch(1)
    /\ BlockOf(DataSent[1]) = 1 /\ BlockOf(rcvd[1]) = 2

-----------------------------------------------------------------------------
(* C3 *)

\* the i-th DATA sent is the full block 65535 and its ACK was accepted
Acked65535(i) ==
    /\ i <= Len(DataSent) /\ i <= Len(rcvd)
    /\ BlockOf(DataSent[i]) = WireMax
    /\ DataSent[i].data.len = ChunkSize
    /\ IsAckReply(i, WireMax)

\* C3: in an upload, once DATA(65535) is acknowledged and more data remains,
\* the next DATA packet carries block field 0 and a reply Ack(0) is accepted.
C3_UploadWraparound ==
    operation = "put" =>
        \A i \in 1..Len(rcvd) :
            Acked65535(i) /\ file_len > WireMax * ChunkSize /\ pc # "put_send" =>
                /\ exception = "none"
                /\ Len(DataSent) > i
                /\ BlockOf(DataSent[i + 1]) = 0
                /\ (Len(rcvd) > i /\ IsAckReply(i + 1, 0) => ~Failed)

-----------------------------------------------------------------------------
(* C4 *)

\* C4: in a download, once DATA(65535) is accepted, a DATA packet with block
\* field 0 is accepted as the next block: written, acknowledged with Ack(0),
\* not rejected.
C4_DownloadWraparound ==
    operation = "get" =>
        \A i \in 1..Len(rcvd) :
            /\ base + i = WireMax
            /\ \A j \in 1..i : IsDataReply(j, base + j)
                                 /\ rcvd[j].data.len = ChunkSize
            /\ Len(rcvd) > i
            /\ IsDataReply(i + 1, 0)
            => /\ MsgBadData \notin Messages
               /\ nWrites = i + 1
               /\ sink = Concatenated(i + 1)
               /\ Len(AcksSent) = i + 1
               /\ BlockOf(AcksSent[i + 1]) = 0
               /\ block_number = 0

-----------------------------------------------------------------------------
(* C5 *)

\* C5: in either direction a receive that times out is the last receive of the
\* session, which is then FAILED with Timeout and nothing else; the socket is
\* not closed twice, and it has been closed exactly once when main has exited.
C5_Timeout ==
    \A i \in 1..Len(rcvd) :
        rcvd[i].kind = "timeout" =>
            /\ Len(rcvd) = i
            /\ Finished
            /\ FailureKinds = {"Timeout"}
            /\ ~Done
            /\ nClose = (IF pc = "exit" THEN 1 ELSE 0)
            /\ sock_open = (pc # "exit")

C5_Witness ==
    /\ operation = "put" /\ pc = "exit"
    /\ Len(rcvd) = 2 /\ rcvd[2].kind = "timeout"
    /\ nClose = 1 /\ ~sock_open

-----------------------------------------------------------------------------
(* C6 *)

\* the i-th reply is the ACK of the i-th DATA packet sent
CorrectAck(i) == i <= Len(DataSent) /\ IsAckReply(i, BlockOf(DataSent[i]))

\* C6: an upload of a file of k * 512 bytes whose DATA packets are all
\* acknowledged correctly does not fail, and is DONE only when the DATA
\* packets sent are k full ones followed by exactly one empty one with the
\* next block number, and that empty one has been acknowledged.
C6_ZeroLengthFinal ==
    /\ operation = "put" /\ file_exists
    /\ file_len % ChunkSize = 0
    /\ \A i \in 1..Len(rcvd) : CorrectAck(i)
    => /\ ~Failed
       /\ Done =>
            LET n == Len(DataSent) IN
            /\ base + n = file_len \div ChunkSize + 1
            /\ DataSent[n].data.len = 0
            /\ \A i \in 1..(n - 1) : DataSent[i].data.len = ChunkSize
            /\ \A i \in 1..n :
                  BlockOf(DataSent[i]) = (base + i) % (WireMax + 1)
            /\ Len(rcvd) = n

-----------------------------------------------------------------------------
(* C7 *)

\* C7: in both directions a received ERROR packet makes the session FAILED with
\* ServerError, not with UnexpectedPacket.
C7_ServerError ==
    \A i \in 1..Len(rcvd) :
        rcvd[i].kind = "datagram" /\ IsPacket(rcvd[i], ERROR) =>
            FailureKinds = {"ServerError"}

-----------------------------------------------------------------------------
(* C8 *)

\* every end of the session leads to the finally clause, and the socket is
\* closed once main has exited
C8_Closed ==
    /\ Done \/ Failed => Finished
    /\ pc = "finally" => sock_open /\ nClose = 0
    /\ pc = "exit" => ~sock_open /\ nClose = 1

\* a step taken with the socket closed neither sends nor receives
C8_Quiet == ~sock_open => sent' = sent /\ rcvd' = rcvd

\* C8: the socket is closed on every exit path of main (success, every failure,
\* an exception raised in the transfer), and nothing is sent or received on it
\* after it is closed.
C8_ChannelRelease == []C8_Closed /\ [][C8_Quiet]_vars

C8_Witness ==
    /\ exception = "struct.error" /\ operation = "put" /\ Len(rcvd) = 1
    /\ pc = "exit" /\ ~sock_open /\ nClose = 1

-----------------------------------------------------------------------------
(* C9 *)

\* C9: a finished session is DONE or FAILED and not both; a download is DONE
\* only if its last datagram is a short DATA block whose ACK was the last packet
\* sent and every payload received is in the sink; an upload is DONE only if
\* the source was read to its end, the chunks sent are the consecutive chunks of
\* the source, the last one short, and the last datagram received is the ACK
\* with the block number of that last DATA packet.
C9_NoPartialSuccess ==
    /\ Finished => (Done /\ ~Failed) \/ (Failed /\ ~Done)
    /\ Done /\ operation = "get" =>
          LET n == Len(rcvd) IN
          /\ n >= 1
          /\ \A i \in 1..n : IsDataReply(i, base + i)
          /\ rcvd[n].data.len < ChunkSize
          /\ Len(AcksSent) = n
          /\ sent[Len(sent)] = AcksSent[n]
          /\ BlockOf(AcksSent[n]) = BlockOf(rcvd[n])
          /\ sink = Concatenated(n)
    /\ Done /\ operation = "put" =>
          LET n == Len(DataSent) IN
          /\ n >= 1
          /\ file_pos = file_len
          /\ \A i \in 1..n :
                /\ DataSent[i].data.id = (base + i - 1) * ChunkSize
                /\ DataSent[i].data.len =
                      Min(ChunkSize, file_len - DataSent[i].data.id)
          /\ DataSent[n].data.len < ChunkSize
          /\ Len(rcvd) = n
          /\ IsAckReply(n, BlockOf(DataSent[n]))

C9_Witness ==
    /\ operation = "put" /\ Done /\ pc = "exit"
    /\ file_len = 2 * ChunkSize /\ Len(DataSent) = 3

-----------------------------------------------------------------------------
(* C10 *)

\* the datagram r is one that a download at block blk must reject
Unexpected(r, blk) ==
    /\ r.kind = "datagram"
    /\ Len(r.hdr) = 4
    /\ UnpackHH(r.hdr)[1] # DATA \/ UnpackHH(r.hdr)[2] # blk + 1

\* a download step that receives a datagram to reject reports UnexpectedPacket
\* and leaves the sink, the packets sent and the block number as they were
C10_Step ==
    /\ operation = "get"
    /\ Len(rcvd') = Len(rcvd) + 1
    /\ Unexpected(rcvd'[Len(rcvd')], block_number)
    => /\ printed' = Append(printed, MsgBadData)
       /\ Kind(MsgBadData) = "UnexpectedPacket"
       /\ exception' = "none"
       /\ pc' = "finally"
       /\ sink' = sink
       /\ nWrites' = nWrites
       /\ sent' = sent
       /\ block_number' = block_number

\* C10: a download that receives a non-DATA packet, or a DATA packet whose
\* block is not the current block + 1, becomes FAILED with UnexpectedPacket
\* without writing the payload, sending an ACK or changing the block number.
C10_RejectUnexpected == [][C10_Step]_vars

C10_Witness ==
    /\ operation = "get" /\ base = 0 /\ pc = "exit"
    /\ Len(rcvd) = 2
    /\ IsDataReply(1, 1) /\ IsDataReply(2, 1)
    /\ rcvd[2].data.len = ChunkSize
    /\ FailureKinds = {"UnexpectedPacket"}
    /\ nWrites = 1 /\ Len(AcksSent) = 1 /\ block_number = 1

-----------------------------------------------------------------------------
(* C11 *)

\* the datagram r has fewer than 4 bytes
Truncated(r) == r.kind = "datagram" /\ Len(r.hdr) < 4

\* C11: in both directions a received datagram of fewer than 4 bytes makes the
\* session FAILED with the failure kind Truncated, and is the last datagram
\* received: nothing is written, acknowledged or sent because of it.
C11_TruncatedDatagram ==
    \A i \in 1..Len(rcvd) :
        Truncated(rcvd[i]) =>
            /\ Finished
            /\ FailureKinds = {"Truncated"}
            /\ Len(rcvd) = i
            /\ operation = "get" => nWrites = i - 1 /\ Len(AcksSent) = i - 1
            /\ operation = "put" => Len(DataSent) = i

-----------------------------------------------------------------------------
(* C12 *)

\* C12: once main has built the request for a filename with a NUL character,
\* the session is FAILED with MalformedField, no request packet exists and
\* nothing was sent.
C12_RequestRejectsNul ==
    HasNul(file_name) /\ pc # "start" =>
        /\ FailureKinds = {"MalformedField"}
        /\ request_packet = NoPacket
        /\ sent = <<>>

-----------------------------------------------------------------------------
(* C13 *)

\* a non-empty ASCII filename and an ASCII mode, no NUL in either
ValidText(name, md) ==
    /\ name # <<>>
    /\ \A i \in 1..Len(name) : name[i] \in 1..127
    /\ \A i \in 1..Len(md) : md[i] \in 1..127

\* all the bytes of a packet
Bytes(p) == p.hdr \o p.text

\* the position of the first NUL byte of b at or after position from
FirstNul(b, from) ==
    CHOOSE i \in from..Len(b) : b[i] = 0 /\ \A j \in from..(i - 1) : b[j] # 0

\* decoding of a request: the opcode, then the two NUL-terminated fields
DecodeRequest(b) ==
    LET z1 == FirstNul(b, 3)
        z2 == FirstNul(b, z1 + 1)
    IN  << b[1] * ByteBase + b[2], SubSeq(b, 3, z1 - 1),
           SubSeq(b, z1 + 1, z2 - 1) >>

\* C13: for RRQ and WRQ and every valid filename and mode, the bytes built are
\* opcode (2 bytes, big-endian), filename, NUL, mode, NUL, and splitting them
\* at the two NUL bytes gives back the opcode, the filename and the mode.
C13_RequestRoundTrip ==
    pc = "codec_built" /\ ValidText(file_name, mode) =>
        /\ Bytes(request_packet) =
              << 0, RequestOpcode(operation) >> \o file_name \o << 0 >>
                  \o mode \o << 0 >>
        /\ Len(Bytes(request_packet)) = Len(file_name) + Len(mode) + 4
        /\ DecodeRequest(Bytes(request_packet)) =
              << RequestOpcode(operation), file_name, mode >>

C13_Witness ==
    /\ pc = "codec_built" /\ operation = "put"
    /\ file_name = << 102, 102 >> /\ mode = << 111 >>
    /\ Bytes(request_packet) = << 0, 2, 102, 102, 0, 111, 0 >>

-----------------------------------------------------------------------------
(* C14 *)

\* C14: in an upload at most one DATA packet is unanswered, the DATA packets
\* sent carry consecutive block numbers (1, 2, 3, ... from the start of the
\* session), and each DATA packet but the first was sent after the ACK with the
\* block number of the one before it was received.
C14_UploadLockstep ==
    operation = "put" =>
        /\ Len(DataSent) <= Len(rcvd) + 1
        /\ \A i \in 1..Len(DataSent) : BlockOf(DataSent[i]) = base + i
        /\ \A i \in 1..(Len(DataSent) - 1) : IsAckReply(i, base + i)

C14_Witness ==
    /\ operation = "put" /\ base = 0 /\ pc = "put_recv"
    /\ Len(DataSent) = 3 /\ Len(rcvd) = 2
    /\ BlockOf(DataSent[3]) = 3

-----------------------------------------------------------------------------
(* C15 *)

\* C15: an upload sends no DATA packet before it has received at least one
\* datagram from the peer.
C15_UploadHandshake ==
    operation = "put" /\ Len(DataSent) >= 1 => base + Len(rcvd) >= 1

-----------------------------------------------------------------------------
(* C19 *)

\* C19: every datagram sent (the request, every DATA, every ACK) is addressed
\* to the configured server address, whatever the source of the replies.
C19_FixedDestination ==
    \A i \in 1..Len(sent) : sent[i].dest = ServerAddress

C19_Witness ==
    /\ operation = "get" /\ base = 0
    /\ Len(rcvd) = 2
    /\ rcvd[1].src # ServerAddress /\ rcvd[2].src # ServerAddress
    /\ Len(sent) = 3 /\ Len(AcksSent) = 2
    /\ AcksSent[2].dest = ServerAddress

-----------------------------------------------------------------------------
(* C20 *)

\* C20: a put of a local file that does not exist has sent the WRQ and nothing
\* else, has received nothing, has printed the missing-file message and is
\* finished; the socket is closed once main has exited.
C20_UploadMissingFile ==
    operation = "put" /\ ~file_exists /\ pc # "start" =>
        /\ Len(sent) = 1
        /\ sent[1].hdr = << 0, WRQ >> /\ sent[1].dest = ServerAddress
        /\ DataSent = <<>>
        /\ rcvd = <<>>
        /\ printed = << MsgNoFile >>
        /\ exception = "none"
        /\ Finished
        /\ pc = "exit" => ~sock_open /\ nClose = 1

C20_Witness ==
    /\ operation = "put" /\ ~file_exists /\ file_name = Filename
    /\ pc = "exit" /\ ~sock_open
    /\ Len(sent) = 1 /\ printed = << MsgNoFile >>

-----------------------------------------------------------------------------
(* C16 *)

\* the model's window of MaxRounds receives has ended with the loop running
WindowEnd ==
    Len(rcvd) >= MaxRounds /\ pc \in {"get_recv", "put_send", "put_recv"}

\* every turn of a loop makes progress towards a bound: a download that waits
\* again has counted one more block, at most 65535; an upload that sends has
\* read on in its file, and sends again only after a full chunk; no step leaves
\* the control where it is, except the download's turn
C16_Variant ==
    /\ pc = "get_recv" /\ pc' = "get_recv" =>
          block_number' = block_number + 1 /\ block_number' <= WireMax
    /\ pc = "put_send" /\ pc' = "put_recv" =>
          /\ file_pos' = file_pos + data'.len /\ file_pos' <= file_len
          /\ block_number' = block_number + 1 /\ block_number' <= WireMax
    /\ pc = "put_recv" /\ pc' = "put_send" => data.len = ChunkSize
    /\ pc' = pc => pc = "get_recv"

\* the session has ended in DONE or FAILED with the socket closed
Ended == pc = "exit" /\ ~sock_open /\ (Done \/ Failed)

\* C16: every session ends in DONE or FAILED with the socket closed: each turn
\* of a loop brings the block number nearer to 65535 or the file nearer to its
\* end, a session that has reached block 65533 ends whatever the peer sends,
\* and every session ends or outlasts the window of the model.
C16_Termination ==
    /\ [][C16_Variant]_vars
    /\ base # 0 => <>Ended
    /\ <>(Ended \/ WindowEnd)

C16_Witness ==
    /\ operation = "get" /\ base = WireMax - 2
    /\ Len(rcvd) = 3
    /\ \A i \in 1..3 : rcvd[i].kind = "datagram" /\ IsPacket(rcvd[i], DATA)
                         /\ rcvd[i].data.len = ChunkSize
    /\ BlockOf(rcvd[1]) = WireMax - 1 /\ BlockOf(rcvd[2]) = WireMax
    /\ BlockOf(rcvd[3]) = 0
    /\ Ended

-----------------------------------------------------------------------------
(* C17 *)

\* the i-th receive ended in a timeout or in a datagram the loop rejects
BadReply(i) ==
    \/ rcvd[i].kind = "timeout"
    \/ Truncated(rcvd[i])
    \/ operation = "get" /\ Unexpected(rcvd[i], base + i - 1)
    \/ operation = "put" /\ ~CorrectAck(i)

\* the session has met a timeout or a violation, or has failed
Aborted == Failed \/ \E i \in 1..Len(rcvd) : BadReply(i)

\* no packet was sent twice
C17_Once == \A i, j \in 1..Len(sent) : sent[i] = sent[j] => i = j

\* an aborted session is FAILED and not DONE
C17_Failed == Aborted => Failed /\ ~Done

\* a step of an aborted session sends, receives and writes nothing, and does
\* not make the session DONE
C17_Step ==
    Aborted =>
        /\ sent' = sent /\ rcvd' = rcvd
        /\ sink' = sink /\ nWrites' = nWrites
        /\ ~Done' /\ Failed'

\* C17: no packet is sent twice, and from the first timeout or protocol
\* violation on the session is FAILED for good: it sends and receives nothing
\* more, writes nothing more and never becomes DONE.
C17_NoRetry == [](C17_Once /\ C17_Failed) /\ [][C17_Step]_vars

C17_Witness ==
    /\ operation = "get" /\ base = 0 /\ pc = "exit"
    /\ Len(rcvd) = 2 /\ IsDataReply(1, 1) /\ rcvd[2].kind = "timeout"
    /\ nWrites = 1 /\ Len(sent) = 2
    /\ Failed /\ ~Done

-----------------------------------------------------------------------------
(* C18 *)

\* what a receive step changes, apart from the log of what was received
Observed ==
    << pc, block_number, data, file_pos, sent, sink, nWrites, printed,
       exception, sock_open, nClose >>

\* a step that receives a datagram could have received the same bytes from any
\* other endpoint, with the same result
C18_Step ==
    Len(rcvd') = Len(rcvd) + 1 /\ rcvd'[Len(rcvd')].kind = "datagram" =>
        \A d \in { rcvd'[Len(rcvd')] }, after \in { Observed' },
           other \in Endpoints :
            ENABLED ( /\ \/ GetRecvFrom([d EXCEPT !.src = other])
                         \/ PutRecvFrom([d EXCEPT !.src = other])
                      /\ Observed' = after )

\* C18: the handling of a received datagram does not depend on its source:
\* every receive step has, for every other source endpoint, a twin step that
\* receives the same bytes and reaches the same control point, block number,
\* packets sent, sink content and messages.
C18_SourceNotValidated == [][C18_Step]_vars

C18_Witness ==
    /\ operation = "get" /\ base = 0 /\ pc = "get_recv"
    /\ Len(rcvd) = 2
    /\ rcvd[1].src = "server:69" /\ rcvd[2].src = "server:tid"
    /\ nWrites = 2 /\ Len(AcksSent) = 2

====
